---------------------------- MODULE Spec2Model ----------------------------
(***************************************************************************)
(* A model of the ui-theme crate: the Theme container (name + property map *)
(* keyed by (Widget, WidgetState)), its lookup with state fallback, its    *)
(* lazily inserting mutation, the WidgetProperties setters, the Color      *)
(* arithmetic and the default theme builder.                               *)
(*                                                                         *)
(* Conventions.  Option<T> is a sequence: None is << >>, Some(v) is <<v>>. *)
(* A reference into the map (&WidgetProperties) is the key it points at.   *)
(* f32 values of the source are all integral and appear as integers.       *)
(***************************************************************************)
EXTENDS Integers, Sequences, FiniteSets, TLC

VARIABLES
    name,           \* Theme.name
    properties,     \* Theme.properties: a function from a set of keys
    origin,         \* which constructor produced the theme ("none" before)
    handle,         \* the live &mut WidgetProperties borrow: Some(key)/None
    op,             \* the operation that produced the current state
    ret,            \* what that operation returned
    nsets,          \* number of setter calls made so far
    overflow_checks,\* build profile: are arithmetic overflow checks on?
    cself,          \* Color arithmetic: the receiver colour
    cother,         \* Color arithmetic: the other colour of mix
    cpercent,       \* Color arithmetic: the percent argument
    cop,            \* Color arithmetic: the function applied last
    cresult,        \* Color arithmetic: its result
    cname,          \* Color::hex: the string parsed, as its characters
    calls,          \* the themes default_theme returned so far, in order
    env,            \* loader: desktop, dconf output, directories, portal
    largs,          \* loader: the arguments of Theme::load, None before
    lsteps,         \* loader: the sources tried, in order
    lresult,        \* loader: what Theme::load returned
    sphase,         \* user_shade_preference: "idle", "racing", "returned"
    sor,            \* future::or: which future it polls next, or "parked"
    sreq,           \* get_theme_info: "start", "waiting", "done"
    sbus,           \* the portal call: "quiet", "asked", "answered",
                    \* "delivered"
    sreply,         \* what the bus answered
    sticks,         \* executor ticks that ran a task of another kind
    sdriver,        \* poll_executor: "unborn", "running", "dropped"
    sresult,        \* what user_shade_preference returned, None before
    cached,         \* windows.rs: static INSTANCE: AtomicIsize
    registered,     \* windows.rs: the dummy window class is registered
    closure_runs,   \* windows.rs: runs of the call_once closure so far
    wpc,            \* windows.rs: where each thread is
    wframe,         \* windows.rs: the function each thread was called for
    wlocal,         \* windows.rs: instance()'s locals instance and handle
    wret,           \* windows.rs: what each thread's last call returned
    wcalls          \* windows.rs: calls each thread has made

themeVars == <<name, properties, origin, handle, op, ret, nsets>>
colorVars == <<cself, cother, cpercent, cop, cresult, cname>>
loadVars == <<env, largs, lsteps, lresult>>
shadeVars == <<sphase, sor, sreq, sbus, sreply, sticks, sdriver, sresult>>
winVars == <<cached, registered, closure_runs, wpc, wframe, wlocal, wret,
             wcalls>>
vars == <<name, properties, origin, handle, op, ret, nsets, overflow_checks,
          cself, cother, cpercent, cop, cresult, cname, calls,
          env, largs, lsteps, lresult,
          sphase, sor, sreq, sbus, sreply, sticks, sdriver, sresult,
          cached, registered, closure_runs, wpc, wframe, wlocal, wret,
          wcalls>>

---------------------------------------------------------------------------
(* Bounds of the exploration.                                              *)

\* setter calls explored after construction
MaxSetterCalls == 1

\* the widgets, states and names the operations are called with
TestWidgets == {"Button", "Checkbox"}
TestStates == {"Enabled", "Hovered"}
LoadedName == "Adwaita"
TestNames == {"Mine"}

---------------------------------------------------------------------------
(* Option<T>                                                               *)

None == << >>
Some(v) == <<v>>
IsSome(o) == Len(o) = 1
Unwrap(o) == o[1]

---------------------------------------------------------------------------
(* Widgets and widget states.                                              *)

WIDGETS ==
    << "Button", "Checkbox", "RadioButton", "ComboBox", "ComboBoxButton",
       "DateTimePicker", "Editor", "ListView", "ListViewItem",
       "ListViewExpandButton", "MenuBar", "MenuBarItem", "PopupMenu",
       "PopupMenuItem", "MenuSeparator", "NavigationBack",
       "NavigationForward", "NavigationMenu", "NavigationPageDown",
       "NavigationPageUp", "ProgressBar", "ProgressBarChunk",
       "ScrollBarArrow", "ScrollBarHandle", "SpinnerDown", "SpinnerUp",
       "TabBody", "TabPane", "TabItem", "Taskbar", "TextBody", "TextTitle",
       "TextHyperlink", "TextLabel", "ToolbarButton",
       "ToolbarDropdownButton", "ToolbarSeparator", "TooltipBalloon",
       "TooltipBalloonStem" >>

WIDGET_STATES ==
    << "Disabled", "Enabled", "Focused", "Selected", "Hovered", "Pressed",
       "Checked" >>

\* impl Default for WidgetState
WidgetStateDefault == "Enabled"

Range(seq) == { seq[i] : i \in 1..Len(seq) }

\* the values of the enums Widget and WidgetState
Widget == Range(WIDGETS)
WidgetState == Range(WIDGET_STATES)

\* type Key = (Widget, WidgetState)
Key == Widget \X WidgetState

---------------------------------------------------------------------------
(* WidgetProperties and its setters.                                       *)

\* #[derive(Default)] on WidgetProperties: every field None
WidgetPropertiesDefault ==
    [ border |-> None, background |-> None, text |-> None,
      menu_text |-> None, text_shadow |-> None, box_shadow |-> None,
      margin |-> None, padding |-> None, default_size |-> None,
      menu_bar_size |-> None, scroll_bar_size |-> None ]

set_border(p, border) == [p EXCEPT !.border = Some(border)]
set_background(p, background) == [p EXCEPT !.background = Some(background)]
set_text_style(p, text_style) == [p EXCEPT !.text = Some(text_style)]
set_menu_text_style(p, text_style) == [p EXCEPT !.menu_text = Some(text_style)]
set_text_shadow(p, text_shadow) == [p EXCEPT !.text_shadow = Some(text_shadow)]
set_box_shadow(p, box_shadow) == [p EXCEPT !.box_shadow = Some(box_shadow)]
set_margin(p, margin) == [p EXCEPT !.margin = Some(margin)]
set_padding(p, padding) == [p EXCEPT !.padding = Some(padding)]
set_default_size(p, size) == [p EXCEPT !.default_size = Some(size)]
set_menu_bar_size(p, size) == [p EXCEPT !.menu_bar_size = Some(size)]
set_scroll_bar_size_as_menu(p, size) == [p EXCEPT !.menu_bar_size = Some(size)]
set_scroll_bar_size(p, size) == [p EXCEPT !.scroll_bar_size = Some(size)]

---------------------------------------------------------------------------
(* Color: [u8; 4] as <<r, g, b, a>>.                                       *)
(* A fallible computation yields [panic |-> BOOLEAN, ovf |-> BOOLEAN,      *)
(* val |-> value]: panic is a panic!() or a failed overflow check, ovf     *)
(* says that some intermediate left its integer type.                      *)

\* number of values of u8 and of u16
U8Modulus == 256
U16Modulus == 65536

Channel == 0 .. (U8Modulus - 1)

\* Color::new
ColorNew(r, g, b, a) == <<r, g, b, a>>

Ok(v) == [panic |-> FALSE, ovf |-> FALSE, val |-> v]

\* str::as_bytes for the characters that occur in the model
ascii ==
    [ c \in { "#", "0", "1", "2", "3", "4", "5", "6", "7", "8", "9",
              "a", "b", "c", "d", "e", "f", "A", "B", "C", "D", "E", "F",
              "g", "G", " ", "/", ":", "@" } |->
        CASE c = "#" -> 35  [] c = " " -> 32  [] c = "/" -> 47
          [] c = "0" -> 48  [] c = "1" -> 49  [] c = "2" -> 50
          [] c = "3" -> 51  [] c = "4" -> 52  [] c = "5" -> 53
          [] c = "6" -> 54  [] c = "7" -> 55  [] c = "8" -> 56
          [] c = "9" -> 57  [] c = ":" -> 58  [] c = "@" -> 64
          [] c = "A" -> 65  [] c = "B" -> 66  [] c = "C" -> 67
          [] c = "D" -> 68  [] c = "E" -> 69  [] c = "F" -> 70
          [] c = "G" -> 71
          [] c = "a" -> 97  [] c = "b" -> 98  [] c = "c" -> 99
          [] c = "d" -> 100 [] c = "e" -> 101 [] c = "f" -> 102
          [] c = "g" -> 103 ]

as_bytes(str) == [ i \in 1..Len(str) |-> ascii[str[i]] ]

\* a faulty loop body: a byte outside the three ranges counts as 0
hex_step_lenient(acc, byte, checks) ==
    LET value == IF byte \in 48..57 THEN byte - 48
                 ELSE IF byte \in 97..102 THEN byte - 97 + 10
                 ELSE IF byte \in 65..70 THEN byte - 65 + 10
                 ELSE 0
        wide == acc.val * 16 + value
        ovf == wide >= U8Modulus
    IN  IF acc.panic THEN acc
        ELSE [ panic |-> checks /\ ovf,
               ovf |-> acc.ovf \/ ovf,
               val |-> wide % U8Modulus ]

\* one iteration of the loop of const_parse_hex in color.rs: the match on
\* the byte, then result * 16 + value in u8
hex_step(acc, byte, checks) ==
    LET known == \/ byte \in 48..57
                 \/ byte \in 97..102
                 \/ byte \in 65..70
        value == IF byte \in 48..57 THEN byte - 48
                 ELSE IF byte \in 97..102 THEN byte - 97 + 10
                 ELSE IF byte \in 65..70 THEN byte - 65 + 10
                 ELSE 0
        wide == acc.val * 16 + value
        ovf == wide >= U8Modulus
    IN  IF acc.panic THEN acc
        ELSE [ panic |-> ~known \/ (checks /\ ovf),
               ovf |-> acc.ovf \/ ovf,
               val |-> wide % U8Modulus ]

\* const_parse_hex of color.rs: index runs from 0 to hex.len() - 1
RECURSIVE parse_from(_, _, _, _)
parse_from(hex, index, acc, checks) ==
    IF index > Len(hex) THEN acc
    ELSE parse_from(hex, index + 1, hex_step(acc, hex[index], checks), checks)

const_parse_hex(hex, checks) == parse_from(hex, 1, Ok(0), checks)

\* Color::hex of color.rs; name[1..=6] of the source are name[2..7] here,
\* and indexing past the end of the slice panics
hex(str, checks) ==
    LET bytes == as_bytes(str) IN
    IF Len(bytes) < 7 THEN [panic |-> TRUE, ovf |-> FALSE, val |-> << >>]
    ELSE LET first == const_parse_hex(<<bytes[2], bytes[3]>>, checks)
             second == const_parse_hex(<<bytes[4], bytes[5]>>, checks)
             third == const_parse_hex(<<bytes[6], bytes[7]>>, checks)
         IN  [ panic |-> first.panic \/ second.panic \/ third.panic,
               ovf |-> first.ovf \/ second.ovf \/ third.ovf,
               val |-> ColorNew(first.val, second.val, third.val, 255) ]

\* the match of const_parse_hex in lib.rs: the value of a byte, None for the
\* wildcard arm (the panic)
lib_digit(c) ==
    CASE c = 48 -> Some(0) [] c = 49 -> Some(1) [] c = 50 -> Some(2)
      [] c = 51 -> Some(3) [] c = 52 -> Some(4) [] c = 53 -> Some(5)
      [] c = 54 -> Some(6) [] c = 55 -> Some(7) [] c = 56 -> Some(8)
      [] c = 57 -> Some(9)
      [] c \in {97, 65} -> Some(10)
      [] c \in {98, 66} -> Some(11)
      [] c \in {99, 67} -> Some(12)
      [] c \in {100, 68} -> Some(13)
      [] c \in {101, 69} -> Some(14)
      [] c \in {102, 70} -> Some(15)
      [] OTHER -> None

\* one iteration of the loop of const_parse_hex in lib.rs: result *= 16,
\* then result += match c { .. }, both in u8
lib_hex_step(acc, c, checks) ==
    LET mul == acc.val * 16
        ovfMul == mul >= U8Modulus
        digit == lib_digit(c)
        sum == (mul % U8Modulus) + (IF IsSome(digit) THEN Unwrap(digit) ELSE 0)
        ovfSum == sum >= U8Modulus
    IN  IF acc.panic THEN acc
        ELSE [ panic |-> (checks /\ ovfMul) \/ ~IsSome(digit)
                            \/ (checks /\ ovfSum),
               ovf |-> acc.ovf \/ ovfMul \/ ovfSum,
               val |-> sum % U8Modulus ]

\* const_parse_hex of lib.rs: index runs from hex.len() - 1 down to 0
RECURSIVE lib_parse_from(_, _, _, _)
lib_parse_from(digits, index, acc, checks) ==
    IF index < 1 THEN acc
    ELSE lib_parse_from(digits, index - 1,
                        lib_hex_step(acc, digits[index], checks), checks)

lib_const_parse_hex(digits, checks) ==
    lib_parse_from(digits, Len(digits), Ok(0), checks)

\* Color::hex of lib.rs
lib_hex(str, checks) ==
    LET bytes == as_bytes(str) IN
    IF Len(bytes) < 7 THEN [panic |-> TRUE, ovf |-> FALSE, val |-> << >>]
    ELSE LET first == lib_const_parse_hex(<<bytes[2], bytes[3]>>, checks)
             second == lib_const_parse_hex(<<bytes[4], bytes[5]>>, checks)
             third == lib_const_parse_hex(<<bytes[6], bytes[7]>>, checks)
         IN  [ panic |-> first.panic \/ second.panic \/ third.panic,
               ovf |-> first.ovf \/ second.ovf \/ third.ovf,
               val |-> ColorNew(first.val, second.val, third.val, 255) ]

\* a faulty t!: the product is formed in u8, without widening
darken_t_u8(e, percent, checks) ==
    LET wide == e * percent
        ovf == wide >= U8Modulus
    IN  [ panic |-> checks /\ ovf,
          ovf |-> ovf,
          val |-> ((wide % U8Modulus) \div 100) % U8Modulus ]

\* macro t! of Color::darken: (($e as u16 * percent as u16) / 100) as u8
darken_t(e, percent, checks) ==
    LET wide == e * percent
        ovf == wide >= U16Modulus
    IN  [ panic |-> checks /\ ovf,
          ovf |-> ovf,
          val |-> ((wide % U16Modulus) \div 100) % U8Modulus ]

\* the channels Color::darken applies t! to
darken_channels == {1, 2, 3}

\* Color::darken
darken(c, percent, checks) ==
    LET t == [ i \in 1..4 |-> IF i \in darken_channels
                              THEN darken_t(c[i], percent, checks)
                              ELSE Ok(c[i]) ]
    IN  [ panic |-> \E i \in 1..4 : t[i].panic,
          ovf |-> \E i \in 1..4 : t[i].ovf,
          val |-> ColorNew(t[1].val, t[2].val, t[3].val, t[4].val) ]

\* macro t! of Color::mix: e + ((o - e) * p) / 100 in u16, then as u8
mix_t(e, o, p, checks) ==
    LET sub == o - e
        subW == sub % U16Modulus
        mul == subW * p
        mulW == mul % U16Modulus
        sum == e + (mulW \div 100)
        sumW == sum % U16Modulus
        ovf == sub < 0 \/ mul >= U16Modulus \/ sum >= U16Modulus
    IN  [ panic |-> checks /\ ovf,
          ovf |-> ovf,
          val |-> sumW % U8Modulus ]

\* Color::mix
mix(c, other, percent, checks) ==
    LET t == [ i \in 1..4 |-> mix_t(c[i], other[i], percent, checks) ]
    IN  [ panic |-> \E i \in 1..4 : t[i].panic,
          ovf |-> \E i \in 1..4 : t[i].ovf,
          val |-> ColorNew(t[1].val, t[2].val, t[3].val, t[4].val) ]

\* c.darken(percent) on the value of an earlier constant: an earlier
\* failure stays
darkenOf(r, percent, checks) ==
    IF r.panic THEN r
    ELSE LET q == darken(r.val, percent, checks)
         IN  [q EXCEPT !.ovf = r.ovf \/ q.ovf]

\* c.mix(other, percent) on the values of earlier constants
mixOf(r, o, percent, checks) ==
    IF r.panic THEN r
    ELSE IF o.panic THEN o
    ELSE LET q == mix(r.val, o.val, percent, checks)
         IN  [q EXCEPT !.ovf = r.ovf \/ o.ovf \/ q.ovf]

---------------------------------------------------------------------------
(* The style records.                                                      *)

\* impl From<Color> for Fill
FillFromColor(color) == [kind |-> "Color", color |-> color]

\* Border::new
BorderNew(thickness, color) ==
    [thickness |-> thickness, color |-> color, dashes |-> None, radius |-> 0]

\* Border::set_radius
border_set_radius(b, radius) == [b EXCEPT !.radius = radius]

\* Margin::new
MarginNew(left, right, top, bottom) ==
    [left |-> left, right |-> right, top |-> top, bottom |-> bottom]

\* Shadow::new
ShadowNew(color) == [color |-> color, offset |-> <<0, 0>>, blur |-> 0]

\* TextStyle::new
TextStyleNew(size, family) ==
    [ family |-> family, size |-> size, orientation |-> 0, weight |-> 400,
      italic |-> FALSE, underline |-> FALSE, strikethrough |-> FALSE,
      color |-> ColorNew(0, 0, 0, 255), halignment |-> "Left",
      valignment |-> "Center" ]

text_set_color(t, color) == [t EXCEPT !.color = color]
text_set_halignment(t, halignment) == [t EXCEPT !.halignment = halignment]
text_set_valignment(t, valignment) == [t EXCEPT !.valignment = valignment]

---------------------------------------------------------------------------
(* Theme: the pure parts of its operations.                                *)

\* a faulty insert: the map is replaced by the new entry alone
MapInsert_replace(map, key, value) == (key :> value)

\* HashMap::insert: the new value replaces an old one at the same key
MapInsert(map, key, value) == (key :> value) @@ map

\* HashMap::with_hasher: the empty map
EmptyMap == [ k \in {} |-> WidgetPropertiesDefault ]

\* the for loop of Theme::empty, from index i of WIDGETS on
RECURSIVE empty_loop(_, _)
empty_loop(map, i) ==
    IF i > Len(WIDGETS) THEN map
    ELSE empty_loop(MapInsert(map, <<WIDGETS[i], WidgetStateDefault>>,
                              WidgetPropertiesDefault), i + 1)

\* a faulty Theme::empty: the loop misses the first widget
empty_skip_first(n) == [name |-> n, properties |-> empty_loop(EmptyMap, 2)]

\* Theme::empty
empty(n) == [name |-> n, properties |-> empty_loop(EmptyMap, 1)]

\* a faulty Theme::get: the fallback looks up the first state of the enum
\* instead of WidgetState::default()
get_wrong_default(map, widget, state) ==
    IF <<widget, state>> \in DOMAIN map
    THEN [kind |-> "ref", key |-> <<widget, state>>]
    ELSE IF <<widget, WIDGET_STATES[1]>> \in DOMAIN map
    THEN [kind |-> "ref", key |-> <<widget, WIDGET_STATES[1]>>]
    ELSE [kind |-> "panic", key |-> None]

\* a faulty Theme::get: the two lookups are swapped
get_enabled_first(map, widget, state) ==
    IF <<widget, WidgetStateDefault>> \in DOMAIN map
    THEN [kind |-> "ref", key |-> <<widget, WidgetStateDefault>>]
    ELSE IF <<widget, state>> \in DOMAIN map
    THEN [kind |-> "ref", key |-> <<widget, state>>]
    ELSE [kind |-> "panic", key |-> None]

\* a faulty Theme::get: unwrap_or_default in place of the panic
get_or_default(map, widget, state) ==
    IF <<widget, state>> \in DOMAIN map
    THEN [kind |-> "ref", key |-> <<widget, state>>]
    ELSE [kind |-> "ref", key |-> <<widget, WidgetStateDefault>>]

\* Theme::get: the reference returned, or the panic
get(map, widget, state) ==
    IF <<widget, state>> \in DOMAIN map
    THEN [kind |-> "ref", key |-> <<widget, state>>]
    ELSE IF <<widget, WidgetStateDefault>> \in DOMAIN map
    THEN [kind |-> "ref", key |-> <<widget, WidgetStateDefault>>]
    ELSE [kind |-> "panic", key |-> None]

\* a faulty Theme::get_mut: a new entry starts as a copy of (w, Enabled)
get_mut_copy_enabled(map, widget, state) ==
    LET key == <<widget, state>>
        dflt == <<widget, WidgetStateDefault>>
    IN  [ map |-> IF key \in DOMAIN map THEN map
                  ELSE IF dflt \in DOMAIN map
                  THEN MapInsert(map, key, map[dflt])
                  ELSE MapInsert(map, key, WidgetPropertiesDefault),
          key |-> key ]

\* a faulty Theme::get_mut: it also restores the (w, Enabled) entry
get_mut_with_default(map, widget, state) ==
    LET key == <<widget, state>>
        dflt == <<widget, WidgetStateDefault>>
        m1 == IF dflt \in DOMAIN map THEN map
              ELSE MapInsert(map, dflt, WidgetPropertiesDefault)
    IN  [ map |-> IF key \in DOMAIN m1 THEN m1
                  ELSE MapInsert(m1, key, WidgetPropertiesDefault),
          key |-> key ]

\* Theme::get_mut: entry(key).or_insert_with(default); the map afterwards
\* and the reference returned
get_mut(map, widget, state) ==
    LET key == <<widget, state>> IN
    [ map |-> IF key \in DOMAIN map THEN map
              ELSE MapInsert(map, key, WidgetPropertiesDefault),
      key |-> key ]

---------------------------------------------------------------------------
(* The default theme (default_theme.rs).  T is ThemeType::IS_LIGHT; the    *)
(* associated constants are evaluated by the compiler when the builder is  *)
(* instantiated for T, under the overflow checks of the build.             *)

BLACK == ColorNew(0, 0, 0, 255)
WHITE == ColorNew(255, 255, 255, 255)

\* macro choose!
choose(T, light, dark) == IF T THEN light ELSE dark

\* The associated constants of ThemeType, one value per instance T and per
\* build: the compiler evaluates each of them once.
TEXT_COLOR == [T \in BOOLEAN, checks \in BOOLEAN |-> Ok(choose(T, BLACK, WHITE))]
BASE_COLOR == [T \in BOOLEAN, checks \in BOOLEAN |-> Ok(choose(T, WHITE, BLACK))]
BG_COLOR ==
    [ T \in BOOLEAN, checks \in BOOLEAN |->
        choose(T, hex(<<"#", "f", "6", "f", "5", "f", "4">>, checks),
                  hex(<<"#", "3", "d", "3", "8", "4", "6">>, checks)) ]
FG_COLOR ==
    [ T \in BOOLEAN, checks \in BOOLEAN |->
        choose(T, hex(<<"#", "2", "e", "3", "4", "3", "6">>, checks),
                  hex(<<"#", "e", "e", "e", "e", "e", "c">>, checks)) ]

SELECTED_FG_COLOR == [T \in BOOLEAN, checks \in BOOLEAN |-> Ok(WHITE)]
SELECTED_BG_COLOR ==
    [ T \in BOOLEAN, checks \in BOOLEAN |->
        choose(T, hex(<<"#", "3", "5", "8", "4", "e", "4">>, checks),
                  darkenOf(hex(<<"#", "3", "5", "8", "4", "e", "3">>, checks),
                           20, checks)) ]
SELECTED_BORDERS_COLOR ==
    [ T \in BOOLEAN, checks \in BOOLEAN |->
        choose(T, darkenOf(SELECTED_BG_COLOR[T, checks], 15, checks),
                  darkenOf(SELECTED_BG_COLOR[T, checks], 30, checks)) ]

BORDERS_COLOR ==
    [ T \in BOOLEAN, checks \in BOOLEAN |->
        choose(T, darkenOf(BG_COLOR[T, checks], 18, checks),
                  darkenOf(BG_COLOR[T, checks], 10, checks)) ]
ALT_BORDERS_COLOR ==
    [ T \in BOOLEAN, checks \in BOOLEAN |->
        choose(T, darkenOf(BG_COLOR[T, checks], 24, checks),
                  darkenOf(BG_COLOR[T, checks], 18, checks)) ]
LINK_COLOR ==
    [ T \in BOOLEAN, checks \in BOOLEAN |->
        choose(T, darkenOf(SELECTED_BG_COLOR[T, checks], 10, checks),
                  darkenOf(SELECTED_BG_COLOR[T, checks], 20, checks)) ]
SELECTED_LINK_COLOR ==
    [ T \in BOOLEAN, checks \in BOOLEAN |->
        choose(T, darkenOf(SELECTED_BG_COLOR[T, checks], 20, checks),
                  darkenOf(SELECTED_BG_COLOR[T, checks], 10, checks)) ]

SCROLLBAR_BG_COLOR ==
    [ T \in BOOLEAN, checks \in BOOLEAN |->
        choose(T, mixOf(BG_COLOR[T, checks], FG_COLOR[T, checks], 80, checks),
                  mixOf(BASE_COLOR[T, checks], BG_COLOR[T, checks], 50, checks)) ]
SCROLLBAR_SLIDER_COLOR ==
    [ T \in BOOLEAN, checks \in BOOLEAN |->
        mixOf(FG_COLOR[T, checks], BG_COLOR[T, checks], 60, checks) ]

DISABLED_FG_COLOR ==
    [ T \in BOOLEAN, checks \in BOOLEAN |->
        mixOf(FG_COLOR[T, checks], BG_COLOR[T, checks], 50, checks) ]
DISABLED_BG_COLOR ==
    [ T \in BOOLEAN, checks \in BOOLEAN |->
        mixOf(BG_COLOR[T, checks], BASE_COLOR[T, checks], 60, checks) ]
DISABLED_BORDERS_COLOR ==
    [ T \in BOOLEAN, checks \in BOOLEAN |->
        mixOf(BORDERS_COLOR[T, checks], BG_COLOR[T, checks], 80, checks) ]

\* the constants default_theme_inner::<T> refers to
UsedConstants ==
    [ T \in BOOLEAN, checks \in BOOLEAN |->
        << DISABLED_BG_COLOR[T, checks], BG_COLOR[T, checks],
           DISABLED_FG_COLOR[T, checks], FG_COLOR[T, checks],
           DISABLED_BORDERS_COLOR[T, checks],
           SELECTED_BORDERS_COLOR[T, checks], BORDERS_COLOR[T, checks] >> ]

\* a faulty match: the toolbar button is flagged as well
border_data_toolbar(widget, border_color) ==
    IF widget \in {"Button", "ToolbarButton"} THEN Some(<<1, border_color>>) ELSE None

\* the widgets the builder gives a border: match *widget { Button => .. }
border_data(widget, border_color) ==
    IF widget = "Button" THEN Some(<<1, border_color>>) ELSE None

\* let bg_color = match state { Disabled => .., _ => .. }
bg_color(state, T, checks) ==
    IF state = "Disabled" THEN DISABLED_BG_COLOR[T, checks].val
    ELSE BG_COLOR[T, checks].val

\* let fg_color = match state { Disabled => .., _ => .. }
fg_color(state, T, checks) ==
    IF state = "Disabled" THEN DISABLED_FG_COLOR[T, checks].val
    ELSE FG_COLOR[T, checks].val

\* let border_color = match state { Disabled => .., Selected => .., _ => .. }
border_color(state, T, checks) ==
    IF state = "Disabled" THEN DISABLED_BORDERS_COLOR[T, checks].val
    ELSE IF state = "Selected" THEN SELECTED_BORDERS_COLOR[T, checks].val
    ELSE BORDERS_COLOR[T, checks].val

\* the setter calls of the loop body on the entry props of one widget, with
\* the three colours chosen for the state
default_theme_props(props, widget, bg, fg, bc) ==
    LET p1 == set_background(props, FillFromColor(bg))
        text_style ==
            text_set_valignment(
                text_set_halignment(
                    text_set_color(TextStyleNew(12, "SansSerif"), fg),
                    "Center"),
                "Center")
        p2 == set_text_style(p1, text_style)
        bd == border_data(widget, bc)
        p3 == IF IsSome(bd)
              THEN set_border(p2, border_set_radius(
                                      BorderNew(2, Unwrap(bd)[2]),
                                      Unwrap(bd)[1]))
              ELSE p2
        margin == MarginNew(2, 2, 2, 2)
        p4 == set_padding(set_margin(p3, margin), margin)
        height == IF IsSome(bd) THEN 24 ELSE 20
        p5 == set_default_size(p4, <<height, height>>)
        bar_size_long == 16
        bar_size_short == 8
        p6 == set_menu_bar_size(p5, <<bar_size_long, bar_size_short>>)
    IN  set_scroll_bar_size(p6, <<bar_size_short, bar_size_long>>)

\* the body of the two loops of default_theme_inner for one (widget, state):
\* let props = theme.get_mut(*widget, *state), then the setters
default_theme_cell(map, widget, state, T, checks) ==
    LET m == get_mut(map, widget, state) IN
    [ m.map EXCEPT ![m.key] =
        default_theme_props(m.map[m.key], widget, bg_color(state, T, checks),
                            fg_color(state, T, checks),
                            border_color(state, T, checks)) ]

\* faulty loops: the inner loop visits the default state only
VisitedKeys_enabled_only ==
    { <<WIDGETS[i], WidgetStateDefault>> : i \in 1..Len(WIDGETS) }

\* the pairs the two loops of default_theme_inner visit
VisitedKeys ==
    { <<WIDGETS[i], WIDGET_STATES[j]>> :
        i \in 1..Len(WIDGETS), j \in 1..Len(WIDGET_STATES) }

\* default_theme_inner::<T>: for widget in WIDGETS { for state in
\* WIDGET_STATES { .. } }.  Each pair is visited once and an iteration
\* touches the entry of its own pair only, so the map the loops leave is
\* given entry by entry.
default_theme_inner(map, T, checks) ==
    [ k \in DOMAIN map \cup VisitedKeys |->
        IF k \in VisitedKeys
        THEN default_theme_cell(map, k[1], k[2], T, checks)[k]
        ELSE map[k] ]

\* a faulty name: calls after the first are numbered
DefaultName_counted(shade) ==
    IF Len(calls) = 0
    THEN (IF shade = "Light" THEN "Default_Light" ELSE "Default_Dark")
    ELSE "Default_Again"

\* format!("Default_{:?}", shade)
DefaultName(shade) == IF shade = "Light" THEN "Default_Light" ELSE "Default_Dark"

\* default_theme
default_theme(shade, checks) ==
    LET theme == empty(DefaultName(shade)) IN
    [ name |-> theme.name,
      properties |-> default_theme_inner(theme.properties, shade = "Light",
                                         checks) ]

\* default_theme instantiates default_theme_inner for Light and for Dark:
\* the crate builds only if the constants of both instances evaluate
ConstEvalFails(checks) ==
    \E T \in BOOLEAN : \E c \in Range(UsedConstants[T, checks]) : c.panic

---------------------------------------------------------------------------
(* The Unix loader (free_unix.rs, free_unix/gtk_theme.rs).  A Result is    *)
(* [kind, val, err]: kind "Ok" with the value, or "Err" with the kind of   *)
(* the io::Error.  A theme directory is a function from the theme names it *)
(* holds to what listing dir/name yields; a name outside its domain is     *)
(* ErrorKind::NotFound.                                                    *)

ResOk(v) == [kind |-> "Ok", val |-> v, err |-> "-"]
ResErr(e) == [kind |-> "Err", val |-> None, err |-> e]

\* macro leap!: what an io::Result of the given kind does to load_from_dir:
\* "go" on Ok, otherwise the value returned at once
leap_strict(kind) ==
    IF kind = "Ok" THEN [go |-> TRUE, ret |-> ResOk(None)]
    ELSE IF kind = "NotFound" THEN [go |-> FALSE, ret |-> ResOk(None)]
    ELSE [go |-> FALSE, ret |-> ResErr(kind)]

leap(kind) ==
    IF kind = "Ok" THEN [go |-> TRUE, ret |-> ResOk(None)]
    ELSE IF kind = "NotFound" THEN [go |-> FALSE, ret |-> ResOk(None)]
    ELSE IF kind = "PermissionDenied" THEN [go |-> FALSE, ret |-> ResOk(None)]
    ELSE [go |-> FALSE, ret |-> ResErr(kind)]

\* let mut variants = array_vec![.. "gtk.css"]; if Dark { push("gtk-dark.css") }
variants(shade) ==
    IF shade = "Dark" THEN <<"gtk.css", "gtk-dark.css">> ELSE <<"gtk.css">>

\* load_file_file: Theme::empty(name), then read_to_string(..).map_err(..)?
load_file_file(n, read) ==
    IF read = "Ok" THEN ResOk(empty(n)) ELSE ResErr(read)

\* for variant in variants { if let Ok(file) = File::open(..) { return .. } }
\* from variant i on; files maps the variants that open to what reading
\* them yields.  "next" is Some(result) when the loop returned.
RECURSIVE variant_loop(_, _, _, _)
variant_loop(files, n, vs, i) ==
    IF i > Len(vs) THEN None
    ELSE IF vs[i] \in DOMAIN files
    THEN LET r == load_file_file(n, files[vs[i]]) IN
         Some(IF r.kind = "Ok" THEN ResOk(Some(r.val)) ELSE r)
    ELSE variant_loop(files, n, vs, i + 1)

\* for dir in list_dir { .. } of load_from_dir, from entry i on
RECURSIVE entry_loop(_, _, _, _)
entry_loop(entries, n, shade, i) ==
    IF i > Len(entries) THEN ResOk(None)
    ELSE LET e == entries[i] IN
         IF ~leap(e.entry).go THEN leap(e.entry).ret
         ELSE IF ~leap(e.file_type).go THEN leap(e.file_type).ret
         ELSE IF e.is_dir
         THEN LET v == variant_loop(e.files, n, variants(shade), 1) IN
              IF IsSome(v) THEN Unwrap(v)
              ELSE entry_loop(entries, n, shade, i + 1)
         ELSE entry_loop(entries, n, shade, i + 1)

\* load_from_dir
load_from_dir(dir, n, shade) ==
    LET read_dir == IF n \in DOMAIN dir THEN dir[n].read_dir ELSE "NotFound" IN
    IF ~leap(read_dir).go THEN leap(read_dir).ret
    ELSE entry_loop(dir[n].entries, n, shade, 1)

\* the places gtk_theme::load_theme looks in, in its order: the user data
\* directory, the home directory, the data directories, the GTK data prefix
candidates(e) ==
    (IF IsSome(e.user_data)
     THEN << [at |-> "user_data", dir |-> Unwrap(e.user_data)] >> ELSE << >>)
    \o (IF IsSome(e.home)
        THEN << [at |-> "home", dir |-> Unwrap(e.home)] >> ELSE << >>)
    \o [ i \in 1..Len(e.data_dirs) |->
            [at |-> "data_dir", dir |-> e.data_dirs[i]] ]
    \o (IF IsSome(e.gtk_prefix)
        THEN << [at |-> "gtk_prefix", dir |-> Unwrap(e.gtk_prefix)] >>
        ELSE << >>)

\* the lookups of gtk_theme::load_theme from candidate i on:
\* if let Some(theme) = load_from_dir(..)? { return Ok(Some(theme)) }
RECURSIVE gtk_lookups(_, _, _, _, _)
gtk_lookups(cands, n, shade, i, tried) ==
    IF i > Len(cands) THEN [res |-> ResOk(None), tried |-> tried]
    ELSE LET r == load_from_dir(cands[i].dir, n, shade)
             t == Append(tried, cands[i].at)
         IN  IF r.kind = "Err" THEN [res |-> r, tried |-> t]
             ELSE IF IsSome(r.val) THEN [res |-> r, tried |-> t]
             ELSE gtk_lookups(cands, n, shade, i + 1, t)

\* gtk_theme::load_theme: its result and the places it looked in
gtk_load_theme(e, n, shade) == gtk_lookups(candidates(e), n, shade, 1, << >>)

\* ThemeType::get
ThemeTypeGet(de) ==
    CASE de = "Kde" -> [kind |-> "KdeTheme", key |-> "-"]
      [] de = "Cinnamon" ->
            [kind |-> "GtkTheme",
             key |-> "/org/cinnamon/desktop/interface/gtk-theme"]
      [] de \in {"Gnome", "Unity"} ->
            [kind |-> "GtkTheme",
             key |-> "/org/gnome/desktop/interface/gtk-theme"]
      [] de = "Mate" ->
            [kind |-> "GtkTheme",
             key |-> "/org/mate/desktop/interface/gtk-theme"]
      [] OTHER -> [kind |-> "None", key |-> "-"]

\* dconf_string on the outcome of running `dconf read key`:
\* stdout.retain(|c| " '".contains(c))
dconf_string(output) ==
    LET kept(c) == c \in {" ", "'"} IN
    IF output.kind = "Err" THEN output
    ELSE ResOk(SelectSeq(output.val, kept))

LIGHT_MODE == 1
DARK_MODE == 2

\* user_shade_preference on the reply of the settings portal: answered
\* says whether the bus call and the downcast to u32 succeeded
user_shade_preference_none(reply) == ResOk(None)

user_shade_preference(reply) ==
    IF ~reply.answered THEN ResErr("Other")
    ELSE IF reply.value = LIGHT_MODE THEN ResOk(Some("Light"))
    ELSE IF reply.value = DARK_MODE THEN ResOk(Some("Dark"))
    ELSE ResOk(None)

\* default_theme::load_theme
default_load_theme(n, shade, checks) == ResOk(default_theme(shade, checks))

\* gtk_theme::load_theme(name, shade).ok().flatten() is Some(gtk_theme):
\* look says whether the lookup ran, res is what it returned
gtk_found_never(look, res) == FALSE

gtk_found(look, res) == look /\ res.kind = "Ok" /\ IsSome(res.val)

\* free_unix::load_theme: the Result returned, the sources tried in order,
\* and what the named search yielded and where it looked
load_theme(e, n, shade, checks) ==
    LET tt == ThemeTypeGet(e.de)
        ask == tt.kind = "GtkTheme" /\ n = None
        key == IF ask THEN dconf_string(e.dconf) ELSE ResErr("-")
        name1 == IF ask /\ key.kind = "Ok" THEN Some(key.val) ELSE n
        look == tt.kind = "GtkTheme" /\ IsSome(name1)
        g == IF look THEN gtk_load_theme(e, Unwrap(name1), shade)
             ELSE [res |-> ResOk(None), tried |-> << >>]
        found == gtk_found(look, g.res)
        pref == user_shade_preference(e.portal)
        shade1 == IF pref.kind = "Ok" /\ IsSome(pref.val)
                  THEN Unwrap(pref.val) ELSE shade
    IN  [ result |-> IF found THEN ResOk(Unwrap(g.res.val))
                     ELSE default_load_theme(name1, shade1, checks),
          steps |-> (IF ask THEN <<"dconf">> ELSE << >>)
                    \o (IF look THEN <<"gtk_theme">> ELSE << >>)
                    \o (IF found THEN << >>
                        ELSE <<"shade_preference", "default_theme">>),
          search |-> g.res,
          tried |-> g.tried ]

---------------------------------------------------------------------------
(* The values the operations are called with.                              *)

ShadePreference == {"Light", "Dark"}

TestKeys == TestWidgets \X TestStates

BorderSamples == { border_set_radius(BorderNew(2, BLACK), 1) }
FillSamples == { FillFromColor(WHITE) }
TextStyleSamples == { TextStyleNew(12, "SansSerif") }
ShadowSamples == { ShadowNew(BLACK) }
MarginSamples == { MarginNew(2, 2, 2, 2) }
SizeSamples == { <<24, 24>> }

\* the maps a deserialised Theme may hold: any set of keys, here with
\* default properties
DeserializedMaps ==
    { [ k \in K |-> WidgetPropertiesDefault ] :
        K \in SUBSET ({WIDGETS[1]} \X TestStates) }

---------------------------------------------------------------------------
(* The state machine of one Theme value.                                   *)

NoReply == [answered |-> FALSE, value |-> 0]
Threads == {1, 2}
NoWinRet == [kind |-> "none", val |-> 0]
NoOp == [name |-> "init", widget |-> "-", state |-> "-"]
NoRet == [kind |-> "none", key |-> None]

ColorIdle ==
    /\ cself = BLACK
    /\ cother = BLACK
    /\ cpercent = 0
    /\ cop = "none"
    /\ cresult = Ok(BLACK)
    /\ cname = << >>

ThemeIdle ==
    /\ name = ""
    /\ properties = EmptyMap
    /\ origin = "none"
    /\ handle = None
    /\ op = NoOp
    /\ ret = NoRet
    /\ nsets = 0

\* no call of Theme::load was made
LoadIdle ==
    /\ env = << >>
    /\ largs = None
    /\ lsteps = << >>
    /\ lresult = None

\* user_shade_preference was not called
ShadeIdle ==
    /\ sphase = "idle"
    /\ sor = "request"
    /\ sreq = "start"
    /\ sbus = "quiet"
    /\ sreply = NoReply
    /\ sticks = 0
    /\ sdriver = "unborn"
    /\ sresult = None

\* no thread has called into windows.rs
WinIdle ==
    /\ cached = 0
    /\ registered = FALSE
    /\ closure_runs = 0
    /\ wpc = [t \in Threads |-> "idle"]
    /\ wframe = [t \in Threads |-> "-"]
    /\ wlocal = [t \in Threads |-> [instance |-> 0, handle |-> 0]]
    /\ wret = [t \in Threads |-> NoWinRet]
    /\ wcalls = [t \in Threads |-> 0]

Init ==
    /\ ThemeIdle
    /\ ColorIdle
    /\ calls = << >>
    /\ LoadIdle
    /\ ShadeIdle
    /\ WinIdle
    /\ overflow_checks \in BOOLEAN

\* a theme exists and the program has not panicked
Live == origin \in {"empty", "default_theme", "deserialize"} /\ ret.kind # "panic"

\* the crate does not build: a constant of the default theme fails to
\* evaluate under the overflow checks of the build
ConstEvalError ==
    /\ origin = "none"
    /\ ConstEvalFails(overflow_checks)
    /\ origin' = "build_failed"
    /\ op' = [name |-> "const_eval", widget |-> "-", state |-> "-"]
    /\ ret' = [kind |-> "panic", key |-> None]
    /\ UNCHANGED <<name, properties, handle, nsets, overflow_checks>>
    /\ UNCHANGED <<colorVars, calls, loadVars, shadeVars, winVars>>

\* Theme::empty(name), as load_file_file calls it
Empty(n) ==
    /\ origin = "none"
    /\ ~ConstEvalFails(overflow_checks)
    /\ name' = empty(n).name
    /\ properties' = empty(n).properties
    /\ origin' = "empty"
    /\ handle' = None
    /\ op' = [name |-> "empty", widget |-> "-", state |-> "-"]
    /\ ret' = NoRet
    /\ UNCHANGED <<nsets, overflow_checks>>
    /\ UNCHANGED <<colorVars, calls, loadVars, shadeVars, winVars>>

\* Theme::default_theme(shade)
DefaultTheme(shade) ==
    /\ origin = "none"
    /\ ~ConstEvalFails(overflow_checks)
    /\ LET theme == default_theme(shade, overflow_checks) IN
        /\ name' = theme.name
        /\ properties' = theme.properties
    /\ origin' = "default_theme"
    /\ handle' = None
    /\ op' = [name |-> "default_theme", widget |-> "-", state |-> "-"]
    /\ ret' = NoRet
    /\ UNCHANGED <<nsets, overflow_checks>>
    /\ UNCHANGED <<colorVars, calls, loadVars, shadeVars, winVars>>

\* #[derive(Deserialize)] on Theme: the fields are taken as they come
Deserialize(n, map) ==
    /\ origin = "none"
    /\ ~ConstEvalFails(overflow_checks)
    /\ name' = n
    /\ properties' = map
    /\ origin' = "deserialize"
    /\ handle' = None
    /\ op' = [name |-> "deserialize", widget |-> "-", state |-> "-"]
    /\ ret' = NoRet
    /\ UNCHANGED <<nsets, overflow_checks>>
    /\ UNCHANGED <<colorVars, calls, loadVars, shadeVars, winVars>>

\* Theme::set_name
SetName(n) ==
    /\ Live
    /\ name' = n
    /\ handle' = None
    /\ op' = [name |-> "set_name", widget |-> "-", state |-> "-"]
    /\ ret' = NoRet
    /\ UNCHANGED <<properties, origin, nsets, overflow_checks>>
    /\ UNCHANGED <<colorVars, calls, loadVars, shadeVars, winVars>>

\* a faulty Theme::get: the fallback materialises the key it missed
GetMaterialising(widget, state) ==
    /\ Live
    /\ ret' = get(properties, widget, state)
    /\ properties' = IF ret'.kind = "ref"
                     THEN get_mut(properties, widget, state).map
                     ELSE properties
    /\ handle' = None
    /\ op' = [name |-> "get", widget |-> widget, state |-> state]
    /\ UNCHANGED <<name, origin, nsets, overflow_checks>>
    /\ UNCHANGED <<colorVars, calls, loadVars, shadeVars, winVars>>

\* Theme::get
Get(widget, state) ==
    /\ Live
    /\ ret' = get(properties, widget, state)
    /\ handle' = None
    /\ op' = [name |-> "get", widget |-> widget, state |-> state]
    /\ UNCHANGED <<name, properties, origin, nsets, overflow_checks>>
    /\ UNCHANGED <<colorVars, calls, loadVars, shadeVars, winVars>>

\* Theme::get_mut
GetMut(widget, state) ==
    /\ Live
    /\ LET m == get_mut(properties, widget, state) IN
        /\ properties' = m.map
        /\ handle' = Some(m.key)
        /\ ret' = [kind |-> "mut", key |-> m.key]
    /\ op' = [name |-> "get_mut", widget |-> widget, state |-> state]
    /\ UNCHANGED <<name, origin, nsets, overflow_checks>>
    /\ UNCHANGED <<colorVars, calls, loadVars, shadeVars, winVars>>

\* a faulty setter: the value is dropped and the properties stay as they were
ApplySetter_dropped(setter, p, value) == p

\* the setter of WidgetProperties of the given name, applied to p
ApplySetter(setter, p, value) ==
    CASE setter = "set_border" -> set_border(p, value)
      [] setter = "set_background" -> set_background(p, value)
      [] setter = "set_text_style" -> set_text_style(p, value)
      [] setter = "set_menu_text_style" -> set_menu_text_style(p, value)
      [] setter = "set_text_shadow" -> set_text_shadow(p, value)
      [] setter = "set_box_shadow" -> set_box_shadow(p, value)
      [] setter = "set_margin" -> set_margin(p, value)
      [] setter = "set_padding" -> set_padding(p, value)
      [] setter = "set_default_size" -> set_default_size(p, value)
      [] setter = "set_menu_bar_size" -> set_menu_bar_size(p, value)
      [] setter = "set_scroll_bar_size" -> set_scroll_bar_size(p, value)

\* a setter of WidgetProperties called on the live handle; it returns the
\* same handle for chaining.  op keeps the arguments of the get_mut call
\* the handle comes from.
Setter(setter, value) ==
    /\ Live
    /\ IsSome(handle)
    /\ nsets < MaxSetterCalls
    /\ properties' = [properties EXCEPT
                        ![Unwrap(handle)] = ApplySetter(setter, @, value)]
    /\ nsets' = nsets + 1
    /\ op' = [name |-> setter, widget |-> op.widget, state |-> op.state]
    /\ ret' = [kind |-> "mut", key |-> Unwrap(handle)]
    /\ UNCHANGED <<name, origin, handle, overflow_checks>>
    /\ UNCHANGED <<colorVars, calls, loadVars, shadeVars, winVars>>

SetBorder == \E v \in BorderSamples : Setter("set_border", v)
SetBackground == \E v \in FillSamples : Setter("set_background", v)
SetTextStyle == \E v \in TextStyleSamples : Setter("set_text_style", v)
SetMenuTextStyle == \E v \in TextStyleSamples : Setter("set_menu_text_style", v)
SetTextShadow == \E v \in ShadowSamples : Setter("set_text_shadow", v)
SetBoxShadow == \E v \in ShadowSamples : Setter("set_box_shadow", v)
SetMargin == \E v \in MarginSamples : Setter("set_margin", v)
SetPadding == \E v \in MarginSamples : Setter("set_padding", v)
SetDefaultSize == \E v \in SizeSamples : Setter("set_default_size", v)
SetMenuBarSize == \E v \in SizeSamples : Setter("set_menu_bar_size", v)
SetScrollBarSize == \E v \in SizeSamples : Setter("set_scroll_bar_size", v)

SetterNames ==
    { "set_border", "set_background", "set_text_style", "set_menu_text_style",
      "set_text_shadow", "set_box_shadow", "set_margin", "set_padding",
      "set_default_size", "set_menu_bar_size", "set_scroll_bar_size" }

Next ==
    \/ ConstEvalError
    \/ Empty(LoadedName)
    \/ \E shade \in ShadePreference : DefaultTheme(shade)
    \/ \E map \in DeserializedMaps : Deserialize(LoadedName, map)
    \/ \E n \in TestNames : SetName(n)
    \/ \E w \in TestWidgets, s \in TestStates : Get(w, s)
    \/ \E w \in TestWidgets, s \in TestStates : GetMut(w, s)
    \/ SetBorder
    \/ SetBackground
    \/ SetTextStyle
    \/ SetMenuTextStyle
    \/ SetTextShadow
    \/ SetBoxShadow
    \/ SetMargin
    \/ SetPadding
    \/ SetDefaultSize
    \/ SetMenuBarSize
    \/ SetScrollBarSize

Spec == Init /\ [][Next]_vars

---------------------------------------------------------------------------
(* The colour arithmetic applied to sampled inputs.                        *)

ChannelSamples == {0, 1, 100, 255}
PercentSamples == {0, 1, 15, 50, 100, 101, 200, 255}

SelfSamples == { ColorNew(x, y, 100, z) : x, y, z \in ChannelSamples }
OtherSamples == { ColorNew(x, 100, y, 255) : x, y \in ChannelSamples }

InitColor ==
    /\ ThemeIdle
    /\ overflow_checks \in BOOLEAN
    /\ cself \in SelfSamples
    /\ cother \in OtherSamples
    /\ cpercent \in PercentSamples
    /\ cop = "none"
    /\ cresult = Ok(cself)
    /\ cname = << >>
    /\ calls = << >>
    /\ LoadIdle
    /\ ShadeIdle
    /\ WinIdle

\* self.darken(percent)
Darken ==
    /\ cop = "none"
    /\ cop' = "darken"
    /\ cresult' = darken(cself, cpercent, overflow_checks)
    /\ UNCHANGED <<cself, cother, cpercent, cname, overflow_checks>>
    /\ UNCHANGED <<themeVars, calls, loadVars, shadeVars, winVars>>

\* self.mix(other, percent)
Mix ==
    /\ cop = "none"
    /\ cop' = "mix"
    /\ cresult' = mix(cself, cother, cpercent, overflow_checks)
    /\ UNCHANGED <<cself, cother, cpercent, cname, overflow_checks>>
    /\ UNCHANGED <<themeVars, calls, loadVars, shadeVars, winVars>>

NextColor ==
    \/ Darken
    \/ Mix

SpecColor == InitColor /\ [][NextColor]_vars

---------------------------------------------------------------------------
(* Color::hex applied to sampled strings: '#' and three digit pairs.       *)

\* digit pairs: both cases, both nibble orders, and bytes next to the three
\* digit ranges in either position
PairSamples ==
    { <<"f", "f">>, <<"F", "F">>, <<"0", "0">>, <<"1", "0">>, <<"3", "d">>,
      <<"E", "4">>, <<"a", "B">>, <<"9", "c">>,
      <<"g", "0">>, <<"0", "G">>, <<"/", "9">>, <<"a", ":">>, <<"@", "A">>,
      <<"f", " ">> }

HexNames == { <<"#">> \o p \o q \o r : p, q, r \in PairSamples }

InitHex ==
    /\ ThemeIdle
    /\ overflow_checks \in BOOLEAN
    /\ cself = BLACK
    /\ cother = BLACK
    /\ cpercent = 0
    /\ cop = "none"
    /\ cresult = Ok(BLACK)
    /\ cname \in HexNames
    /\ calls = << >>
    /\ LoadIdle
    /\ ShadeIdle
    /\ WinIdle

\* Color::hex(name) of color.rs
Hex ==
    /\ cop = "none"
    /\ cop' = "hex"
    /\ cresult' = hex(cname, overflow_checks)
    /\ UNCHANGED <<cself, cother, cpercent, cname, overflow_checks>>
    /\ UNCHANGED <<themeVars, calls, loadVars, shadeVars, winVars>>

\* Color::hex(name) of lib.rs
LibHex ==
    /\ cop = "none"
    /\ cop' = "lib_hex"
    /\ cresult' = lib_hex(cname, overflow_checks)
    /\ UNCHANGED <<cself, cother, cpercent, cname, overflow_checks>>
    /\ UNCHANGED <<themeVars, calls, loadVars, shadeVars, winVars>>

NextHex ==
    \/ Hex
    \/ LibHex

SpecHex == InitHex /\ [][NextHex]_vars

---------------------------------------------------------------------------
(* default_theme called several times in one process.  Each Theme owns a   *)
(* HashMap built with PsuedoRandom::default(), whose seeds come from a     *)
(* fastrand generator: they differ from map to map and depend on the       *)
(* calls made before.                                                      *)

\* calls of default_theme explored
MaxCalls == 3

\* PsuedoRandom::default: the seeds a new map may get
SeedSamples == {1, 2, 3}

InitCalls ==
    /\ ThemeIdle
    /\ ColorIdle
    /\ calls = << >>
    /\ LoadIdle
    /\ ShadeIdle
    /\ WinIdle
    /\ overflow_checks \in BOOLEAN

\* Theme::default_theme(shade), once more: the theme returned and the
\* seeds of its map
DefaultThemeCall(shade) ==
    /\ ~ConstEvalFails(overflow_checks)
    /\ Len(calls) < MaxCalls
    /\ \E seed \in SeedSamples :
        LET theme == default_theme(shade, overflow_checks) IN
        calls' = Append(calls, [ shade |-> shade,
                                 name |-> theme.name,
                                 properties |-> theme.properties,
                                 hasher |-> seed ])
    /\ UNCHANGED <<themeVars, colorVars, loadVars, overflow_checks>>
    /\ UNCHANGED <<shadeVars, winVars>>

NextCalls ==
    \/ ConstEvalError
    \/ \E shade \in ShadePreference : DefaultThemeCall(shade)

SpecCalls == InitCalls /\ [][NextCalls]_vars

---------------------------------------------------------------------------
(* Theme::load on a free Unix, in sampled environments.                    *)

\* the theme name the caller passes, and what `dconf read` prints for a
\* theme of that name
GivenName == <<"A", "d", "w">>
DconfOutput == <<"'", "A", "d", "w", "'", "\n">>

\* a theme subdirectory that holds gtk.css
GoodEntry ==
    [entry |-> "Ok", file_type |-> "Ok", is_dir |-> TRUE,
     files |-> [v \in {"gtk.css"} |-> "Ok"]]

\* what listing dir/name may yield: a theme, the two tolerated errors, an
\* I/O error at each of the four fallible calls, a dark variant only, and
\* a plain file next to a subdirectory without CSS
ListingSamples ==
    { [read_dir |-> "Ok", entries |-> <<GoodEntry>>],
      [read_dir |-> "PermissionDenied", entries |-> << >>],
      [read_dir |-> "Other", entries |-> << >>],
      [read_dir |-> "Ok",
       entries |-> <<[GoodEntry EXCEPT !.entry = "Other"], GoodEntry>>],
      [read_dir |-> "Ok",
       entries |-> <<[GoodEntry EXCEPT !.file_type = "Other"], GoodEntry>>],
      [read_dir |-> "Ok",
       entries |-> <<[GoodEntry EXCEPT !.files = [v \in {"gtk.css"} |-> "Other"]]>>],
      [read_dir |-> "Ok",
       entries |-> <<[GoodEntry EXCEPT
                        !.files = [v \in {"gtk-dark.css"} |-> "Ok"]]>>],
      [read_dir |-> "Ok",
       entries |-> <<[GoodEntry EXCEPT !.is_dir = FALSE],
                     [GoodEntry EXCEPT !.files = << >>]>>] }

\* a directory without themes
EmptyDir == << >>

DirOf(n, listing) == [x \in {n} |-> listing]

DirSamples ==
    { DirOf(GivenName, l) : l \in ListingSamples }
    \cup { EmptyDir, DirOf(<<"'", "'">>, [read_dir |-> "Ok", entries |-> <<GoodEntry>>]) }

SecondDirSamples ==
    { EmptyDir,
      DirOf(GivenName, [read_dir |-> "Ok", entries |-> <<GoodEntry>>]),
      DirOf(GivenName, [read_dir |-> "Other", entries |-> << >>]) }

\* where the two sampled directories sit among the places searched; the
\* data directories are never none (XDG_DATA_DIRS has a default), and
\* without a home directory the user data directory needs XDG_CONFIG_HOME
Layouts(d1, d2) ==
    { [user_data |-> Some(d1), home |-> Some(d2),
       data_dirs |-> <<EmptyDir>>, gtk_prefix |-> None],
      [user_data |-> None, home |-> None,
       data_dirs |-> <<d1, d2>>, gtk_prefix |-> None],
      [user_data |-> Some(EmptyDir), home |-> None,
       data_dirs |-> <<d1>>, gtk_prefix |-> Some(d2)] }

\* the portal does not answer, or answers 0, 1 or 2
PortalSamples ==
    { [answered |-> FALSE, value |-> 0] }
    \cup { [answered |-> TRUE, value |-> v] : v \in {0, LIGHT_MODE, DARK_MODE} }

\* the environments: every sampled pair of directories in every layout on
\* a Gnome desktop whose dconf names the theme, and every sampled desktop,
\* dconf outcome and portal reply over two of the layouts
LayoutSamples ==
    UNION { Layouts(d1, d2) : d1 \in DirSamples, d2 \in SecondDirSamples }

FewLayouts ==
    Layouts(DirOf(GivenName, [read_dir |-> "Ok", entries |-> <<GoodEntry>>]),
            EmptyDir)
    \cup Layouts(DirOf(GivenName, [read_dir |-> "Other", entries |-> << >>]),
                 EmptyDir)

EnvOf(de, dc, po, l) ==
    [ de |-> de, dconf |-> dc, portal |-> po,
      user_data |-> l.user_data, home |-> l.home,
      data_dirs |-> l.data_dirs, gtk_prefix |-> l.gtk_prefix ]

EnvSamples ==
    { EnvOf("Gnome", ResOk(DconfOutput), po, l) :
        po \in { [answered |-> FALSE, value |-> 0],
                 [answered |-> TRUE, value |-> DARK_MODE] },
        l \in LayoutSamples }
    \cup { EnvOf(de, dc, po, l) :
             de \in {"Gnome", "Kde", "Xfce"},
             dc \in {ResErr("NotFound"), ResOk(DconfOutput)},
             po \in PortalSamples,
             l \in FewLayouts }

InitLoad ==
    /\ ThemeIdle
    /\ ColorIdle
    /\ calls = << >>
    /\ overflow_checks \in BOOLEAN
    /\ env \in EnvSamples
    /\ largs = None
    /\ lsteps = << >>
    /\ lresult = None
    /\ ShadeIdle
    /\ WinIdle

\* Theme::load(name, shade) / Theme::load_blocking(name, shade)
Load(n, shade) ==
    /\ largs = None
    /\ origin = "none"
    /\ ~ConstEvalFails(overflow_checks)
    /\ LET r == load_theme(env, n, shade, overflow_checks) IN
        /\ lsteps' = r.steps
        /\ lresult' = Some([result |-> r.result, search |-> r.search,
                            tried |-> r.tried])
    /\ largs' = Some([name |-> n, shade |-> shade])
    /\ UNCHANGED <<themeVars, colorVars, calls, env, overflow_checks>>
    /\ UNCHANGED <<shadeVars, winVars>>

NextLoad ==
    \/ ConstEvalError
    \/ \E n \in {None, Some(GivenName)}, shade \in ShadePreference :
            Load(n, shade)

SpecLoad == InitLoad /\ [][NextLoad]_vars

---------------------------------------------------------------------------
(* user_shade_preference: the portal request raced against the loop that   *)
(* ticks the connection's executor.  future::or polls its first future,    *)
(* returns its value if it is ready, and only then polls the second; a      *)
(* pending race is parked until a waker polls it again.                     *)

\* executor ticks spent on tasks other than the delivery of the reply
MaxTicks == 3

\* does poll_executor complete after a tick?  loop { executor.tick().await }
\* has no exit
poll_executor_returns(ticked) == ticked

poll_executor_ready(ticked) == FALSE

\* executor.tick() has the task to run that reads the reply off the socket
\* and hands it to the request
reader_runnable_never(bus) == FALSE

reader_runnable(bus) == bus = "answered"

InitShade ==
    /\ ThemeIdle
    /\ ColorIdle
    /\ calls = << >>
    /\ LoadIdle
    /\ ShadeIdle
    /\ WinIdle
    /\ overflow_checks \in BOOLEAN

\* user_shade_preference up to the race: the session connection is built,
\* or the error of building it is returned
ShadeCall(connects) ==
    /\ sphase = "idle"
    /\ IF connects
       THEN /\ sphase' = "racing"
            /\ sdriver' = "running"
            /\ UNCHANGED sresult
       ELSE /\ sphase' = "returned"
            /\ sresult' = Some(ResErr("Other"))
            /\ UNCHANGED sdriver
    /\ UNCHANGED <<sor, sreq, sbus, sreply, sticks>>
    /\ UNCHANGED <<themeVars, colorVars, calls, loadVars, winVars,
                   overflow_checks>>

\* future::or polls get_theme_info: the first poll sends the call, a later
\* one finds the reply or is pending; a ready request ends the race and
\* drops both futures
PollRequest ==
    /\ sphase = "racing"
    /\ sor = "request"
    /\ IF sreq = "start"
       THEN /\ sreq' = "waiting"
            /\ sbus' = "asked"
            /\ sor' = "driver"
            /\ UNCHANGED <<sphase, sdriver, sresult>>
       ELSE IF sbus = "delivered"
       THEN /\ sreq' = "done"
            /\ sresult' = Some(user_shade_preference(sreply))
            /\ sphase' = "returned"
            /\ sdriver' = "dropped"
            /\ UNCHANGED <<sbus, sor>>
       ELSE /\ sor' = "driver"
            /\ UNCHANGED <<sreq, sbus, sphase, sdriver, sresult>>
    /\ UNCHANGED <<sreply, sticks>>
    /\ UNCHANGED <<themeVars, colorVars, calls, loadVars, winVars,
                   overflow_checks>>

\* future::or polls poll_executor and executor.tick() runs a task: the one
\* that hands the reply read from the socket to the request, or another
Tick ==
    /\ sphase = "racing"
    /\ sor = "driver"
    /\ sdriver = "running"
    /\ \/ /\ reader_runnable(sbus)
          /\ sbus' = "delivered"
          /\ UNCHANGED sticks
       \/ /\ sticks < MaxTicks
          /\ sticks' = sticks + 1
          /\ UNCHANGED sbus
    /\ IF poll_executor_ready(TRUE)
       THEN /\ sresult' = Some(ResOk(None))
            /\ sphase' = "returned"
            /\ sdriver' = "returned"
       ELSE UNCHANGED <<sresult, sphase, sdriver>>
    /\ UNCHANGED <<sor, sreq, sreply>>
    /\ UNCHANGED <<themeVars, colorVars, calls, loadVars, winVars,
                   overflow_checks>>

\* executor.tick() finds no task to run: poll_executor is pending, and so
\* is the race
DriverPends ==
    /\ sphase = "racing"
    /\ sor = "driver"
    /\ sdriver = "running"
    /\ ~reader_runnable(sbus)
    /\ sor' = "parked"
    /\ UNCHANGED <<sphase, sreq, sbus, sreply, sticks, sdriver, sresult>>
    /\ UNCHANGED <<themeVars, colorVars, calls, loadVars, winVars,
                   overflow_checks>>

\* a waker fires (the socket is readable, the request was handed its
\* reply, or another task became runnable) and the race is polled again
Wake ==
    /\ sphase = "racing"
    /\ sor = "parked"
    /\ \/ sbus \in {"answered", "delivered"}
       \/ sticks < MaxTicks
    /\ sor' = "request"
    /\ UNCHANGED <<sphase, sreq, sbus, sreply, sticks, sdriver, sresult>>
    /\ UNCHANGED <<themeVars, colorVars, calls, loadVars, winVars,
                   overflow_checks>>

\* the bus answers the portal call, with a value or with an error
BusAnswer(reply) ==
    /\ sbus = "asked"
    /\ sbus' = "answered"
    /\ sreply' = reply
    /\ UNCHANGED <<sphase, sor, sreq, sticks, sdriver, sresult>>
    /\ UNCHANGED <<themeVars, colorVars, calls, loadVars, winVars,
                   overflow_checks>>

NextShade ==
    \/ \E connects \in BOOLEAN : ShadeCall(connects)
    \/ PollRequest
    \/ Tick
    \/ DriverPends
    \/ Wake
    \/ \E reply \in PortalSamples : BusAnswer(reply)

SpecShade == InitShade /\ [][NextShade]_vars

\* block_on polls the race again whenever a waker fired, and a poll runs
\* to its end
SpecShadeLive ==
    /\ SpecShade
    /\ WF_vars(PollRequest)
    /\ WF_vars(Tick)
    /\ WF_vars(DriverPends)
    /\ WF_vars(Wake)

---------------------------------------------------------------------------
(* windows.rs: Window::dummy and instance(), called from several threads.  *)
(* Each step below is one access to shared state, so that the threads      *)
(* interleave between any two of them.                                     *)

\* calls each thread makes
MaxWinCalls == 2

\* the handle GetModuleHandleW(null) gives when it succeeds
HMODULE == 4194304

\* the state of the Once that call_once is applied to.  INIT_CLASS is a
\* `const`, not a `static`: the expression INIT_CLASS is a new value
\* Once::new() at every use, and call_once works on that temporary
OnceAtCall == "incomplete"

\* AtomicIsize::compare_exchange(current, new).unwrap_or_else(|x| x): the
\* cell afterwards and the value handed back, which is the previous value
\* of the cell on success as on failure
compare_exchange(cell, current, new) ==
    IF cell = current THEN [cell |-> new, back |-> cell]
    ELSE [cell |-> cell, back |-> cell]

InitWin ==
    /\ ThemeIdle
    /\ ColorIdle
    /\ calls = << >>
    /\ LoadIdle
    /\ ShadeIdle
    /\ WinIdle
    /\ overflow_checks \in BOOLEAN

\* what leaves winVars' other parts alone
WinRest ==
    UNCHANGED <<themeVars, colorVars, calls, loadVars, shadeVars,
                overflow_checks>>

\* what instance() returning r does to thread t: the caller gets r, or the
\* closure of Window::dummy goes on: .expect("Failed to load hInstance")
InstanceReturns(t, r) ==
    IF wframe[t] = "instance"
    THEN /\ wret' = [wret EXCEPT ![t] = r]
         /\ wpc' = [wpc EXCEPT ![t] = "idle"]
    ELSE IF r.kind = "Ok"
    THEN /\ wret' = [wret EXCEPT ![t] = r]
         /\ wpc' = [wpc EXCEPT ![t] = "register"]
    ELSE /\ wret' = [wret EXCEPT ![t] = [kind |-> "panic", val |-> 0]]
         /\ wpc' = [wpc EXCEPT ![t] = "idle"]

\* a thread calls instance()
InstanceCall(t) ==
    /\ wpc[t] = "idle"
    /\ wcalls[t] < MaxWinCalls
    /\ wcalls' = [wcalls EXCEPT ![t] = @ + 1]
    /\ wframe' = [wframe EXCEPT ![t] = "instance"]
    /\ wpc' = [wpc EXCEPT ![t] = "load"]
    /\ wret' = [wret EXCEPT ![t] = NoWinRet]
    /\ UNCHANGED <<cached, registered, closure_runs, wlocal>>
    /\ WinRest

\* a thread calls Window::dummy(): INIT_CLASS.call_once(|| ..) runs the
\* closure if the Once it is applied to is incomplete; the closure starts
\* with instance()
DummyCall(t) ==
    /\ wpc[t] = "idle"
    /\ wcalls[t] < MaxWinCalls
    /\ wcalls' = [wcalls EXCEPT ![t] = @ + 1]
    /\ wframe' = [wframe EXCEPT ![t] = "dummy"]
    /\ wret' = [wret EXCEPT ![t] = NoWinRet]
    /\ IF OnceAtCall = "incomplete"
       THEN /\ closure_runs' = closure_runs + 1
            /\ wpc' = [wpc EXCEPT ![t] = "load"]
       ELSE /\ UNCHANGED closure_runs
            /\ wpc' = [wpc EXCEPT ![t] = "todo"]
    /\ UNCHANGED <<cached, registered, wlocal>>
    /\ WinRest

\* let instance = INSTANCE.load(Relaxed); if instance != 0 { return Ok(..) }
LoadInstance(t) ==
    /\ wpc[t] = "load"
    /\ wlocal' = [wlocal EXCEPT ![t].instance = cached]
    /\ IF cached # 0
       THEN InstanceReturns(t, [kind |-> "Ok", val |-> cached])
       ELSE /\ wpc' = [wpc EXCEPT ![t] = "get_handle"]
            /\ UNCHANGED wret
    /\ UNCHANGED <<cached, registered, closure_runs, wframe, wcalls>>
    /\ WinRest

\* let handle = GetModuleHandleW(null); if handle == 0 { return Err(..) }
GetModuleHandle(t, h) ==
    /\ wpc[t] = "get_handle"
    /\ wlocal' = [wlocal EXCEPT ![t].handle = h]
    /\ IF h = 0
       THEN InstanceReturns(t, [kind |-> "Err", val |-> 0])
       ELSE /\ wpc' = [wpc EXCEPT ![t] = "install"]
            /\ UNCHANGED wret
    /\ UNCHANGED <<cached, registered, closure_runs, wframe, wcalls>>
    /\ WinRest

\* let instance = INSTANCE.compare_exchange(instance, handle, ..)
\*     .unwrap_or_else(|x| x); Ok(instance)
Install(t) ==
    /\ wpc[t] = "install"
    /\ LET x == compare_exchange(cached, wlocal[t].instance, wlocal[t].handle)
       IN  /\ cached' = x.cell
           /\ wlocal' = [wlocal EXCEPT ![t].instance = x.back]
           /\ InstanceReturns(t, [kind |-> "Ok", val |-> x.back])
    /\ UNCHANGED <<registered, closure_runs, wframe, wcalls>>
    /\ WinRest

\* RegisterClassExW(&class): 0 when the class exists already, and the
\* system may refuse for its own reasons; if result == 0 { panic!(..) }
RegisterClass(t, accepted) ==
    /\ wpc[t] = "register"
    /\ IF accepted /\ ~registered
       THEN /\ registered' = TRUE
            /\ wpc' = [wpc EXCEPT ![t] = "todo"]
            /\ UNCHANGED wret
       ELSE /\ wret' = [wret EXCEPT ![t] = [kind |-> "panic", val |-> 0]]
            /\ wpc' = [wpc EXCEPT ![t] = "idle"]
            /\ UNCHANGED registered
    /\ UNCHANGED <<cached, closure_runs, wframe, wlocal, wcalls>>
    /\ WinRest

\* the rest of Window::dummy is todo!()
DummyTodo(t) ==
    /\ wpc[t] = "todo"
    /\ wret' = [wret EXCEPT ![t] = [kind |-> "panic", val |-> 0]]
    /\ wpc' = [wpc EXCEPT ![t] = "idle"]
    /\ UNCHANGED <<cached, registered, closure_runs, wframe, wlocal, wcalls>>
    /\ WinRest

NextWin ==
    \E t \in Threads :
        \/ InstanceCall(t)
        \/ DummyCall(t)
        \/ LoadInstance(t)
        \/ \E h \in {0, HMODULE} : GetModuleHandle(t, h)
        \/ Install(t)
        \/ \E accepted \in BOOLEAN : RegisterClass(t, accepted)
        \/ DummyTodo(t)

SpecWin == InitWin /\ [][NextWin]_vars

---------------------------------------------------------------------------
(* Properties of Theme.                                                    *)

FieldNames ==
    { "border", "background", "text", "menu_text", "text_shadow",
      "box_shadow", "margin", "padding", "default_size", "menu_bar_size",
      "scroll_bar_size" }

\* a WidgetProperties value with every field absent
AllAbsent(p) == DOMAIN p = FieldNames /\ \A f \in FieldNames : p[f] = << >>

EnabledKeys == { <<w, "Enabled">> : w \in Widget }

\* the field a setter writes
FieldOf(setter) ==
    CASE setter = "set_border" -> "border"
      [] setter = "set_background" -> "background"
      [] setter = "set_text_style" -> "text"
      [] setter = "set_menu_text_style" -> "menu_text"
      [] setter = "set_text_shadow" -> "text_shadow"
      [] setter = "set_box_shadow" -> "box_shadow"
      [] setter = "set_margin" -> "margin"
      [] setter = "set_padding" -> "padding"
      [] setter = "set_default_size" -> "default_size"
      [] setter = "set_menu_bar_size" -> "menu_bar_size"
      [] setter = "set_scroll_bar_size" -> "scroll_bar_size"

\* C1: right after Theme::empty(name) the map holds exactly the keys
\* (w, Enabled) for the 39 known widgets w, each with all fields absent.
C1_EmptyHoldsExactlyEnabledKeys ==
    op.name = "empty" =>
        /\ Cardinality(Widget) = 39
        /\ DOMAIN properties = EnabledKeys
        /\ \A k \in DOMAIN properties : AllAbsent(properties[k])

C1_Witness ==
    /\ op.name = "empty"
    /\ origin = "empty"
    /\ name = LoadedName
    /\ <<"TooltipBalloonStem", "Enabled">> \in DOMAIN properties

\* C2: in a theme made by Theme::empty or default_theme, after any sequence
\* of get, get_mut, set_name and setter calls, every (w, Enabled) is present
\* and get(w, s) does not panic for any known widget w and any state s.
C2_GetNeverPanicsOnConstructedTheme ==
    origin \in {"empty", "default_theme"} =>
        /\ \A w \in Widget : <<w, "Enabled">> \in DOMAIN properties
        /\ \A w \in Widget, s \in WidgetState :
               get(properties, w, s).kind = "ref"
        /\ ret.kind # "panic"

C2_Witness ==
    /\ origin = "empty"
    /\ nsets = 1
    /\ name \in TestNames
    /\ op.name = "get"
    /\ op.state = "Hovered"
    /\ ret = [kind |-> "ref", key |-> <<op.widget, "Enabled">>]

\* C3: get(w, s) returns the entry at (w, s) when that key is present, also
\* when that entry is all-absent and (w, Enabled) is styled; otherwise the
\* entry at (w, Enabled) when that is present; never another entry.
C3_GetResolvesExactThenEnabled ==
    op.name = "get" =>
        LET exact == <<op.widget, op.state>>
            fallback == <<op.widget, "Enabled">>
        IN  /\ exact \in DOMAIN properties =>
                ret = [kind |-> "ref", key |-> exact]
            /\ (exact \notin DOMAIN properties /\ fallback \in DOMAIN properties)
                => ret = [kind |-> "ref", key |-> fallback]
            /\ ret.kind = "ref" =>
                /\ ret.key \in {exact, fallback}
                /\ ret.key \in DOMAIN properties

C3_Witness ==
    /\ op.name = "get"
    /\ op.state # "Enabled"
    /\ ret = [kind |-> "ref", key |-> <<op.widget, op.state>>]
    /\ <<op.widget, "Enabled">> \in DOMAIN properties
    /\ AllAbsent(properties[ret.key])
    /\ ~AllAbsent(properties[<<op.widget, "Enabled">>])

\* C4: get_mut(w, s) returns a handle to the entry at exactly (w, s); when
\* the key was absent the entry is new and all-absent (never a copy of
\* (w, Enabled)); when it was present the entry keeps its fields.
C4_GetMutInsertsDefaultAtExactKey ==
    [][ op'.name = "get_mut" =>
          LET k == <<op'.widget, op'.state>> IN
          /\ ret' = [kind |-> "mut", key |-> k]
          /\ handle' = <<k>>
          /\ k \in DOMAIN properties'
          /\ k \notin DOMAIN properties => AllAbsent(properties'[k])
          /\ k \in DOMAIN properties => properties'[k] = properties[k]
      ]_vars

C4_Witness ==
    /\ op.name = "get_mut"
    /\ op.state # "Enabled"
    /\ origin = "empty"
    /\ handle = << <<op.widget, op.state>> >>
    /\ AllAbsent(properties[<<op.widget, op.state>>])
    /\ ~AllAbsent(properties[<<op.widget, "Enabled">>])

\* C5: a setter applied through the handle of get_mut(w, s), followed by
\* get(w, s): get returns the entry at (w, s) itself, holding what the
\* setter left there, without falling back to (w, Enabled).
C5_GetAfterGetMutSeesWrite ==
    [][ ( /\ op.name \in SetterNames
          /\ op'.name = "get"
          /\ op'.widget = op.widget
          /\ op'.state = op.state )
        =>
        ( /\ ret' = [kind |-> "ref", key |-> <<op.widget, op.state>>]
          /\ handle = << <<op.widget, op.state>> >>
          /\ properties'[ret'.key] = properties[handle[1]]
          /\ properties'[ret'.key][FieldOf(op.name)] # << >> )
      ]_vars

C5_Witness ==
    /\ op.name = "get"
    /\ op.state # "Enabled"
    /\ origin = "empty"
    /\ nsets = 1
    /\ ret = [kind |-> "ref", key |-> <<op.widget, op.state>>]
    /\ ~AllAbsent(properties[ret.key])
    /\ AllAbsent(properties[<<op.widget, "Enabled">>])

\* C6: get(w, s) changes neither the name nor the map, also when it falls
\* back to (w, Enabled): the key (w, s) is not materialised.
C6_GetLeavesThemeUnchanged ==
    [][ op'.name = "get" => (name' = name /\ properties' = properties) ]_vars

C6_Witness ==
    /\ op.name = "get"
    /\ ret = [kind |-> "ref", key |-> <<op.widget, "Enabled">>]
    /\ op.state # "Enabled"
    /\ <<op.widget, op.state>> \notin DOMAIN properties
    /\ origin = "deserialize"

\* C7: get_mut(w, s) adds exactly the key (w, s) when it was absent and no
\* key when it was present, and changes neither the name nor the value at
\* any other key.
C7_GetMutChangesAtMostOneEntry ==
    [][ op'.name = "get_mut" =>
          LET k == <<op'.widget, op'.state>> IN
          /\ name' = name
          /\ DOMAIN properties' = DOMAIN properties \cup {k}
          /\ \A j \in DOMAIN properties \ {k} : properties'[j] = properties[j]
      ]_vars

C7_Witness ==
    /\ op.name = "get_mut"
    /\ origin = "deserialize"
    /\ DOMAIN properties = { <<op.widget, op.state>> }
    /\ op.state # "Enabled"

\* C8: no public operation (get, get_mut, set_name, a setter) removes a key
\* from the map.
C8_KeysNeverShrink ==
    [][ op'.name \in {"get", "get_mut", "set_name"} \cup SetterNames =>
          DOMAIN properties \subseteq DOMAIN properties' ]_vars

C8_Witness ==
    /\ op.name \in SetterNames
    /\ origin = "empty"
    /\ Cardinality(DOMAIN properties) = Cardinality(Widget) + 2

\* C9: when neither (w, s) nor (w, Enabled) is present, get(w, s) panics
\* and returns no entry.
C9_GetPanicsWithoutDefaultEntry ==
    ( /\ op.name = "get"
      /\ <<op.widget, op.state>> \notin DOMAIN properties
      /\ <<op.widget, "Enabled">> \notin DOMAIN properties )
    => ret = [kind |-> "panic", key |-> << >>]

C9_Witness ==
    /\ op.name = "get"
    /\ origin = "deserialize"
    /\ <<op.widget, "Hovered">> \in DOMAIN properties
    /\ op.state = "Enabled"
    /\ ret.kind = "panic"

---------------------------------------------------------------------------
(* Properties of the colour arithmetic.                                    *)

\* the value (channel * percent) / 100 truncated, narrowed to 8 bits
Scaled(channel, percent) == ((channel * percent) \div 100) % 256

\* for every 8-bit channel and percent the product fits 16 bits
DarkenProductFits ==
    \A e \in 0..255, p \in 0..255 :
        /\ e * p < 65536
        /\ ~darken_t(e, p, TRUE).ovf
        /\ ~darken_t(e, p, TRUE).panic

Between(a, b, v) == (a <= v /\ v <= b) \/ (b <= v /\ v <= a)

\* C11: mix(a, b, 0) = a and mix(a, b, 100) = b for all colours a and b,
\* whichever of the two has the larger channels.
C11_MixEndpoints ==
    cop = "mix" =>
        /\ cpercent = 0 => (~cresult.panic /\ cresult.val = cself)
        /\ cpercent = 100 => (~cresult.panic /\ cresult.val = cother)

\* C12: for percent in 0..100 the channel computation of mix leaves its
\* 16-bit type nowhere, also when o < e, and each channel of the result
\* lies between the two channels mixed.
C12_MixStaysInRange ==
    (cop = "mix" /\ cpercent \in 0..100) =>
        /\ ~cresult.panic
        /\ ~cresult.ovf
        /\ \A i \in 1..4 : Between(cself[i], cother[i], cresult.val[i])

---------------------------------------------------------------------------
(* Properties of Color::hex.                                               *)

\* the hexadecimal digits and their values, upper and lower case alike
DigitValue ==
    [ c \in { "0", "1", "2", "3", "4", "5", "6", "7", "8", "9",
              "a", "b", "c", "d", "e", "f", "A", "B", "C", "D", "E", "F" } |->
        CASE c = "0" -> 0 [] c = "1" -> 1 [] c = "2" -> 2 [] c = "3" -> 3
          [] c = "4" -> 4 [] c = "5" -> 5 [] c = "6" -> 6 [] c = "7" -> 7
          [] c = "8" -> 8 [] c = "9" -> 9
          [] c \in {"a", "A"} -> 10 [] c \in {"b", "B"} -> 11
          [] c \in {"c", "C"} -> 12 [] c \in {"d", "D"} -> 13
          [] c \in {"e", "E"} -> 14 [] c \in {"f", "F"} -> 15 ]

HexDigits == DOMAIN DigitValue

\* the pair of digits at positions i, i + 1 read with the first digit as
\* the high nibble
BigEndianPair(str, i) == 16 * DigitValue[str[i]] + DigitValue[str[i + 1]]

AllDigits(str) == \A i \in 2..7 : str[i] \in HexDigits

\* C13: on '#' and six hex digits every definition of Color::hex (color.rs
\* and lib.rs) returns the colour whose red, green, blue are the three
\* digit pairs read big-endian and whose alpha is 255, in either case of
\* the digits; hex("#ff0000") = hex("#FF0000") = Color(255, 0, 0, 255).
C13_HexReadsPairsBigEndian ==
    (cop \in {"hex", "lib_hex"} /\ Len(cname) = 7 /\ AllDigits(cname)) =>
        /\ ~cresult.panic
        /\ cresult.val = ColorNew(BigEndianPair(cname, 2),
                                  BigEndianPair(cname, 4),
                                  BigEndianPair(cname, 6), 255)
        /\ cname \in { <<"#", "f", "f", "0", "0", "0", "0">>,
                       <<"#", "F", "F", "0", "0", "0", "0">> }
            => cresult.val = ColorNew(255, 0, 0, 255)

\* C14: Color::hex panics whenever one of the six digit positions holds a
\* byte outside 0-9, a-f, A-F; it returns no colour for such a string.
C14_HexPanicsOnInvalidDigit ==
    (cop \in {"hex", "lib_hex"} /\ Len(cname) = 7 /\ ~AllDigits(cname)) =>
        cresult.panic

C14_Witness ==
    /\ cop = "hex"
    /\ cname = <<"#", "f", "f", "0", "0", "0", "G">>
    /\ cresult.panic

---------------------------------------------------------------------------
(* Properties of the default theme.                                        *)

\* C15: the default theme builder cannot fail: default_theme(shade)
\* returns a Theme for Light and for Dark, and every palette constant it
\* uses is evaluated without a panic and without an arithmetic error.
C15_DefaultThemeCannotFail ==
    /\ origin # "build_failed"
    /\ op.name = "default_theme" =>
        \A c \in Range(UsedConstants[name = "Default_Light", overflow_checks]) :
            ~c.panic /\ ~c.ovf

\* C16: default_theme(shade) leaves an entry at every pair of WIDGETS x
\* WIDGET_STATES, with background and text style present, so that get(w, s)
\* on the theme is an exact-key hit for every known w and s.
C16_DefaultThemePopulatesAllPairs ==
    /\ origin = "default_theme" =>
        /\ Cardinality(Widget \X WidgetState) = 39 * 7
        /\ \A w \in Widget, s \in WidgetState :
            /\ <<w, s>> \in DOMAIN properties
            /\ properties[<<w, s>>].background # << >>
            /\ properties[<<w, s>>].text # << >>
            /\ get(properties, w, s) = [kind |-> "ref", key |-> <<w, s>>]
    /\ (origin = "default_theme" /\ op.name = "get") =>
        ret = [kind |-> "ref", key |-> <<op.widget, op.state>>]

C16_Witness ==
    /\ origin = "default_theme"
    /\ op.name = "get"
    /\ op.state = "Hovered"
    /\ ret = [kind |-> "ref", key |-> <<op.widget, "Hovered">>]
    /\ properties[ret.key].background # << >>
    /\ properties[ret.key].text # << >>

\* C17: in the theme default_theme(shade) returns, for both shades and
\* every state, the entry (w, s) has a border exactly when the builder
\* flags w as needing one, which it does for Widget::Button alone; every
\* other widget has no border in any state.
C17_OnlyFlaggedButtonHasBorder ==
    op.name = "default_theme" =>
        \A w \in Widget, s \in WidgetState :
            properties[<<w, s>>].border # << >> <=> w = "Button"

C17_Witness ==
    /\ op.name = "default_theme"
    /\ name = "Default_Dark"
    /\ properties[<<"Button", "Disabled">>].border # << >>
    /\ properties[<<"ToolbarButton", "Enabled">>].border = << >>
    /\ properties[<<"Checkbox", "Selected">>].border = << >>

---------------------------------------------------------------------------
(* Properties of the Unix loader.                                          *)

\* the sources a finished load went through, without the dconf query that
\* only supplies the name
SourcesTried == SelectSeq(lsteps, LAMBDA s : s # "dconf")

\* the named search of a finished load found a theme
SearchFound ==
    /\ Unwrap(lresult).search.kind = "Ok"
    /\ IsSome(Unwrap(lresult).search.val)

\* C19: load_theme tries the named GTK theme lookup, then the dark/light
\* preference query, then default_theme(shade), in that order; the last two
\* run exactly when the lookup produced no theme, and a theme the lookup
\* found is what is returned, without running them
C19_SourcesInOrder ==
    IsSome(lresult) =>
        /\ SourcesTried \in
              { <<"gtk_theme">>,
                <<"gtk_theme", "shade_preference", "default_theme">>,
                <<"shade_preference", "default_theme">> }
        /\ SearchFound <=> SourcesTried = <<"gtk_theme">>
        /\ SearchFound =>
              Unwrap(lresult).result
                  = ResOk(Unwrap(Unwrap(lresult).search.val))
        /\ ~SearchFound =>
              /\ Unwrap(lresult).result.kind = "Ok"
              /\ Unwrap(lresult).result.val.name
                    \in { DefaultName(s) : s \in ShadePreference }

\* a load that found the named theme in the directories and returned it
C19_Witness ==
    /\ IsSome(lresult)
    /\ SearchFound
    /\ lsteps = <<"gtk_theme">>
    /\ Unwrap(lresult).result.kind = "Ok"
    /\ Unwrap(lresult).result.val.name = GivenName

\* C20: when the named search hits an I/O error that is neither NotFound nor
\* PermissionDenied, Theme::load returns that error as Err(LoadThemeError)
\* and does not go on to a later source
C20_SearchErrorSurfaces ==
    (IsSome(lresult) /\ Unwrap(lresult).search.kind = "Err") =>
        /\ Unwrap(lresult).result = ResErr(Unwrap(lresult).search.err)
        /\ "default_theme" \notin Range(lsteps)


\* the name the named search of a finished load looked for: the caller's,
\* or the one dconf_string supplied
SearchedName ==
    IF IsSome(Unwrap(largs).name) THEN Unwrap(Unwrap(largs).name)
    ELSE dconf_string(env.dconf).val

\* the position of a kind of place in the order of the search
PlaceRank(at) ==
    CASE at = "user_data" -> 1
      [] at = "home" -> 2
      [] at = "data_dir" -> 3
      [] at = "gtk_prefix" -> 4

\* the number of places the environment offers to the search
PlaceCount ==
    (IF IsSome(env.user_data) THEN 1 ELSE 0)
    + (IF IsSome(env.home) THEN 1 ELSE 0)
    + Len(env.data_dirs)
    + (IF IsSome(env.gtk_prefix) THEN 1 ELSE 0)

\* listing place i for the searched name fails with NotFound or
\* PermissionDenied
ToleratedAt(i) ==
    LET dir == candidates(env)[i].dir IN
    \/ SearchedName \notin DOMAIN dir
    \/ dir[SearchedName].read_dir \in {"NotFound", "PermissionDenied"}

\* C21: a NotFound or PermissionDenied error for one candidate directory
\* makes load_from_dir return Ok(None), and the search goes on to the next
\* place in the order user data directory, home, data directories, GTK
\* data prefix; it returns Ok(None) only after all places were tried
C21_AbsenceFallsThrough ==
    (IsSome(lresult) /\ "gtk_theme" \in Range(lsteps)) =>
        LET t == Unwrap(lresult).tried
            shade == Unwrap(largs).shade
            at(i) == load_from_dir(candidates(env)[i].dir, SearchedName, shade)
        IN  /\ \A i, j \in 1..Len(t) :
                  i < j => PlaceRank(t[i]) <= PlaceRank(t[j])
            /\ Len(t) <= PlaceCount
            /\ \A i \in 1..Len(t) :
                  /\ ToleratedAt(i) => at(i) = ResOk(None)
                  /\ at(i) = ResOk(None) =>
                        \/ i < Len(t)
                        \/ Unwrap(lresult).search = ResOk(None)
                  /\ i < Len(t) => at(i) = ResOk(None)
            /\ Unwrap(lresult).search = ResOk(None) => Len(t) = PlaceCount

\* a search whose first place could not be listed for want of permission
\* and which found the theme in the next place
C21_Witness ==
    /\ IsSome(lresult)
    /\ "gtk_theme" \in Range(lsteps)
    /\ Unwrap(lresult).tried = <<"user_data", "home">>
    /\ SearchedName \in DOMAIN candidates(env)[1].dir
    /\ candidates(env)[1].dir[SearchedName].read_dir = "PermissionDenied"
    /\ SearchFound


\* C22: every Theme the platform loader returns as Ok, whichever path
\* produced it, holds the key (w, Enabled) for every known widget w
C22_LoadedThemeHasEnabledKeys ==
    (IsSome(lresult) /\ Unwrap(lresult).result.kind = "Ok") =>
        \A w \in Widget :
            <<w, WidgetStateDefault>>
                \in DOMAIN Unwrap(lresult).result.val.properties

\* a load that went through the shade query to the default builder, and
\* whose theme holds the Enabled keys
C22_Witness ==
    /\ IsSome(lresult)
    /\ lsteps = <<"gtk_theme", "shade_preference", "default_theme">>
    /\ Unwrap(lresult).result.kind = "Ok"
    /\ Unwrap(lresult).result.val.name = "Default_Dark"
    /\ EnabledKeys \subseteq DOMAIN Unwrap(lresult).result.val.properties


---------------------------------------------------------------------------
(* Properties of the sizes of the default theme.                           *)

\* C23: in the theme default_theme(shade) returns, every entry has the
\* default size (24, 24) exactly when it has a border and (20, 20)
\* otherwise, the menu-bar size (16, 8) and the scroll-bar size (8, 16),
\* whatever the widget, the state and the shade
C23_DefaultThemeSizes ==
    op.name = "default_theme" =>
        \A k \in Widget \X WidgetState :
            /\ properties[k].border # None
                  <=> properties[k].default_size = Some(<<24, 24>>)
            /\ properties[k].border = None
                  <=> properties[k].default_size = Some(<<20, 20>>)
            /\ properties[k].menu_bar_size = Some(<<16, 8>>)
            /\ properties[k].scroll_bar_size = Some(<<8, 16>>)

\* a default theme with a bordered entry of height 24 and a borderless
\* entry of height 20
C23_Witness ==
    /\ op.name = "default_theme"
    /\ name = "Default_Light"
    /\ properties[<<"Button", "Hovered">>].border # None
    /\ properties[<<"Button", "Hovered">>].default_size = Some(<<24, 24>>)
    /\ properties[<<"TextLabel", "Hovered">>].border = None
    /\ properties[<<"TextLabel", "Hovered">>].default_size = Some(<<20, 20>>)
    /\ properties[<<"TextLabel", "Hovered">>].scroll_bar_size = Some(<<8, 16>>)


---------------------------------------------------------------------------
(* Properties of user_shade_preference.                                    *)

\* C24: the value user_shade_preference returns from the race is always
\* the outcome of the request future; the loop that drives the executor
\* never completes and never determines the result, however the progress
\* of the request and the executor ticks interleave
C24_RaceReturnsRequestOutcome ==
    /\ sdriver # "returned"
    /\ (sphase = "returned" /\ sdriver # "unborn") =>
          /\ sreq = "done"
          /\ sbus = "delivered"
          /\ sdriver = "dropped"
          /\ sresult = Some(user_shade_preference(sreply))

\* a race that returned the dark preference after the executor had ticked
\* for other tasks too
C24_Witness ==
    /\ sphase = "returned"
    /\ sreq = "done"
    /\ sticks > 0
    /\ sreply = [answered |-> TRUE, value |-> DARK_MODE]
    /\ sresult = Some(ResOk(Some("Dark")))

\* C25: the driver loop ticks the executor only while the request is
\* pending, and keeps doing so until the reply is handed over; when the
\* request resolves the race resolves and the driver is dropped, with no
\* tick afterwards; once the bus has answered or erred, the function
\* eventually returns
C25_DriverRunsUntilRequestResolves ==
    /\ [][ (sticks' # sticks \/ (sbus # "delivered" /\ sbus' = "delivered"))
              => (sphase = "racing" /\ sdriver = "running"
                  /\ sreq = "waiting") ]_vars
    /\ [][ (sreq # "done" /\ sreq' = "done")
              => (sphase' = "returned" /\ sdriver' = "dropped") ]_vars
    /\ [][ sphase = "returned" => UNCHANGED <<sticks, sbus, sresult>> ]_vars
    /\ (sbus = "answered") ~> (sbus = "delivered")
    /\ (sbus = "answered") ~> (sphase = "returned" /\ IsSome(sresult))

\* a race that returned the error of the bus after every tick the executor
\* had to give
C25_Witness ==
    /\ sphase = "returned"
    /\ sdriver = "dropped"
    /\ sticks = MaxTicks
    /\ sreply = [answered |-> FALSE, value |-> 0]
    /\ sresult = Some(ResErr("Other"))


---------------------------------------------------------------------------
(* Properties of windows.rs.                                               *)

\* C26: across any number of calls of Window::dummy, from one thread or
\* several, the closure that registers the dummy window class runs at most
\* once: on the first call, and never on a later one
C26_ClassRegisteredAtMostOnce ==
    closure_runs <= 1

\* C29: whenever instance() returns Ok(h), h is the non-zero module
\* handle, for the call that installs the cached value as for later calls
\* and for concurrent callers alike
C29_InstanceReturnsNonZeroHandle ==
    \A t \in Threads :
        (wframe[t] = "instance" /\ wpc[t] = "idle" /\ wret[t].kind = "Ok") =>
            /\ wret[t].val # 0
            /\ wret[t].val = HMODULE


---------------------------------------------------------------------------
(* Properties of the loader's inputs.                                      *)

\* C27: dconf_string returns the value `dconf read` printed: the
\* characters other than the surrounding quotes and spaces are kept, in
\* order, so that a theme name printed as 'Adw' comes back as Adw and is
\* the name the loader searches for
C27_DconfStringKeepsTheName ==
    (IsSome(lresult) /\ "dconf" \in Range(lsteps) /\ env.dconf.kind = "Ok") =>
        /\ dconf_string(env.dconf).kind = "Ok"
        /\ SelectSeq(dconf_string(env.dconf).val,
                     LAMBDA c : c \notin {"'", " ", "\n"}) = GivenName
        /\ SearchFound => Unwrap(Unwrap(lresult).search.val).name = GivenName


---------------------------------------------------------------------------
(* Properties of the state fallback over time.                             *)

\* C28: the fallback of get is live: while (w, s) with s # Enabled is
\* absent, a change written to (w, Enabled) is what get(w, s) shows; once
\* get_mut(w, s) has materialised the key, get(w, s) is that entry, and a
\* change of (w, Enabled) leaves it as it was
C28_FallbackIsLiveUntilMaterialised ==
    [][ \A w \in TestWidgets, s \in TestStates \ {WidgetStateDefault} :
          LET e == <<w, WidgetStateDefault>>
              k == <<w, s>>
          IN  ( /\ Live
                /\ e \in DOMAIN properties
                /\ e \in DOMAIN properties'
                /\ properties'[e] # properties[e] )
              =>
              ( /\ k \notin DOMAIN properties =>
                    /\ k \notin DOMAIN properties'
                    /\ get(properties', w, s) = [kind |-> "ref", key |-> e]
                /\ k \in DOMAIN properties =>
                    /\ k \in DOMAIN properties'
                    /\ properties'[k] = properties[k]
                    /\ get(properties', w, s) = [kind |-> "ref", key |-> k] )
      ]_vars

\* a setter has changed (w, Enabled) after (w, Hovered) was materialised,
\* and the materialised entry is still as get_mut made it
C28_Witness ==
    /\ Live
    /\ nsets = 1
    /\ op.name \in SetterNames
    /\ op.state = "Enabled"
    /\ <<op.widget, "Hovered">> \in DOMAIN properties
    /\ origin = "empty"
    /\ AllAbsent(properties[<<op.widget, "Hovered">>])
    /\ ~AllAbsent(properties[<<op.widget, "Enabled">>])
    /\ get(properties, op.widget, "Hovered")
          = [kind |-> "ref", key |-> <<op.widget, "Hovered">>]


---------------------------------------------------------------------------
(* Properties of the loader's fallback.                                    *)

\* the shade the settings portal states in a finished load, if any: the
\* reply arrived and carries the value of light mode or of dark mode
PortalShade ==
    IF env.portal.answered /\ env.portal.value = LIGHT_MODE THEN Some("Light")
    ELSE IF env.portal.answered /\ env.portal.value = DARK_MODE
    THEN Some("Dark")
    ELSE None

\* the shade the fallback path has to use
ShadeUsed ==
    IF IsSome(PortalShade) THEN Unwrap(PortalShade) ELSE Unwrap(largs).shade

\* C30: in the fallback path the shade given to default_theme is the
\* system preference whenever the query returns Light or Dark, whatever
\* the caller passed, and the caller's shade otherwise; the theme returned
\* is named Default_Light or Default_Dark after the shade used and carries
\* that shade's colours
C30_PreferenceOverridesShade ==
    (IsSome(lresult) /\ "default_theme" \in Range(lsteps)) =>
        LET theme == Unwrap(lresult).result.val IN
        /\ Unwrap(lresult).result.kind = "Ok"
        /\ theme.name = (IF ShadeUsed = "Light" THEN "Default_Light"
                         ELSE "Default_Dark")
        /\ theme.properties[<<"Button", "Enabled">>].background
              = Some(FillFromColor(
                        BG_COLOR[ShadeUsed = "Light", overflow_checks].val))

\* a load whose caller asked for Light while the portal states Dark, and
\* which returned the dark default theme
C30_Witness ==
    /\ IsSome(lresult)
    /\ "default_theme" \in Range(lsteps)
    /\ Unwrap(largs).shade = "Light"
    /\ PortalShade = Some("Dark")
    /\ Unwrap(lresult).result.val.name = "Default_Dark"

=============================================================================
